---------------------------- MODULE Spec2Model ----------------------------
(***************************************************************************)
(* Model of the CPU launcher base class                                    *)
(*   src/intel_extension_for_pytorch/cpu/launch/launcher_base.py           *)
(* The state is one Launcher object (library_paths, ld_preload,            *)
(* environ_set, logger) together with the ambient process environment and  *)
(* the library files present on disk, which the launcher only reads.       *)
(* Python strings that the code lower-cases, concatenates, splits or tests *)
(* with endswith are modelled as sequences of one-character strings, so    *)
(* that these operations are computed rather than assumed.  Environment    *)
(* variable names, tuning values and message texts are only compared and   *)
(* are kept as TLA+ strings.  Python's 0-based supported[0], supported[1], *)
(* supported[2:] are supported[1], supported[2], SubSeq(supported, 3, ..). *)
(***************************************************************************)
EXTENDS Integers, Sequences, FiniteSets, TLC

VARIABLES
    logger,         \* self.logger: TRUE when a logger object was injected
    os_environ,     \* os.environ: the ambient environment, read only
    files,          \* paths of the library files present on disk, read only
    library_paths,  \* self.library_paths
    ld_preload,     \* self.ld_preload
    environ_set,    \* self.environ_set
    call,           \* observation of the last method call
    ncalls          \* number of calls made so far

vars == <<logger, os_environ, files, library_paths, ld_preload, environ_set, call, ncalls>>

---------------------------------------------------------------------------
(* String literals of the source, as character sequences.                  *)
auto == <<"a", "u", "t", "o">>
default == <<"d", "e", "f", "a", "u", "l", "t">>
tcmalloc == <<"t", "c", "m", "a", "l", "l", "o", "c">>
jemalloc == <<"j", "e", "m", "a", "l", "l", "o", "c">>
intel == <<"i", "n", "t", "e", "l">>
iomp5 == <<"i", "o", "m", "p", "5">>
Jemalloc == <<"J", "e", "m", "a", "l", "l", "o", "c">>
INTEL == <<"I", "N", "T", "E", "L">>
foobar == <<"f", "o", "o", "b", "a", "r">>
lib_prefix == <<"l", "i", "b">>
so_suffix == <<".", "s", "o">>
slash == <<"/">>
colon == <<":">>
comma == <<",">>
hyphen == <<"-">>
space == <<" ">>
digits == <<"0", "1", "2", "3", "4", "5", "6", "7", "8", "9">>
lib_dir == <<"/", "l", "i", "b", "/">>
conda_prefix == <<"/", "c">>
virtual_env == <<"/", "v">>
user_home == <<"/", "h">>
local_lib == <<".", "l", "o", "c", "a", "l", "/", "l", "i", "b", "/">>
usr_local_lib == <<"/", "u", "s", "r", "/", "l", "o", "c", "a", "l", "/", "l", "i", "b", "/">>
usr_local_lib64 == <<"/", "u", "s", "r", "/", "l", "o", "c", "a", "l", "/", "l", "i", "b", "6", "4", "/">>
usr_lib == <<"/", "u", "s", "r", "/", "l", "i", "b", "/">>
usr_lib64 == <<"/", "u", "s", "r", "/", "l", "i", "b", "6", "4", "/">>
usr_lib_x86_64 == <<"/", "u", "s", "r", "/", "l", "i", "b", "/", "x", "8", "6", "_", "6", "4", "-", "l", "i", "n", "u", "x", "-", "g", "n", "u", "/">>
conda_jemalloc == <<"/", "c", "/", "l", "i", "b", "/", "l", "i", "b", "j", "e", "m", "a", "l", "l", "o", "c", ".", "s", "o">>
venv_jemalloc == <<"/", "v", "/", "l", "i", "b", "/", "l", "i", "b", "j", "e", "m", "a", "l", "l", "o", "c", ".", "s", "o">>
usr_lib_jemalloc == <<"/", "u", "s", "r", "/", "l", "i", "b", "/", "l", "i", "b", "j", "e", "m", "a", "l", "l", "o", "c", ".", "s", "o">>
usr_local_lib_tcmalloc == <<"/", "u", "s", "r", "/", "l", "o", "c", "a", "l", "/", "l", "i", "b", "/", "l", "i", "b", "t", "c", "m", "a", "l", "l", "o", "c", ".", "s", "o">>
usr_lib64_iomp5 == <<"/", "u", "s", "r", "/", "l", "i", "b", "6", "4", "/", "l", "i", "b", "i", "o", "m", "p", "5", ".", "s", "o">>
opt_jemalloc == <<"/", "a", "/", "l", "i", "b", "j", "e", "m", "a", "l", "l", "o", "c", ".", "s", "o">>
alt_jemalloc == <<"/", "b", "/", "l", "i", "b", "j", "e", "m", "a", "l", "l", "o", "c", ".", "s", "o">>
opt_tcmalloc == <<"/", "a", "/", "l", "i", "b", "t", "c", "m", "a", "l", "l", "o", "c", ".", "s", "o">>
opt_iomp5 == <<"/", "a", "/", "l", "i", "b", "i", "o", "m", "p", "5", ".", "s", "o">>
opt_foo == <<"/", "a", "/", "l", "i", "b", "f", "o", "o", ".", "s", "o">>
upper_case == <<"A", "B", "C", "D", "E", "F", "G", "H", "I", "J", "K", "L", "M", "N", "O", "P", "Q", "R", "S", "T", "U", "V", "W", "X", "Y", "Z">>
lower_case == <<"a", "b", "c", "d", "e", "f", "g", "h", "i", "j", "k", "l", "m", "n", "o", "p", "q", "r", "s", "t", "u", "v", "w", "x", "y", "z">>

---------------------------------------------------------------------------
(* Bounds of the model.                                                    *)

\* Largest number of entries of the ambient LD_PRELOAD value.
MaxPreload == 2

---------------------------------------------------------------------------
(* Python string and list primitives used by the launcher.                 *)

Range(s) == {s[i] : i \in 1..Len(s)}

\* str.lower() on one character (ASCII letters).
lower_char(c) ==
    IF \E i \in 1..Len(upper_case) : upper_case[i] = c
    THEN lower_case[CHOOSE i \in 1..Len(upper_case) : upper_case[i] = c]
    ELSE c

\* str.lower()
lower(s) == [i \in 1..Len(s) |-> lower_char(s[i])]

\* str.endswith(suffix)
endswith(s, suffix) ==
    /\ Len(s) >= Len(suffix)
    /\ SubSeq(s, Len(s) - Len(suffix) + 1, Len(s)) = suffix

\* str.split(sep) for a one-character separator: "" splits into [""].
RECURSIVE split(_, _)
split(s, sep) ==
    IF \E i \in 1..Len(s) : <<s[i]>> = sep
    THEN LET i == CHOOSE j \in 1..Len(s) : <<s[j]>> = sep /\ \A k \in 1..(j - 1) : <<s[k]>> # sep
         IN  <<SubSeq(s, 1, i - 1)>> \o split(SubSeq(s, i + 1, Len(s)), sep)
    ELSE <<s>>

\* sep.join(list): how an ambient LD_PRELOAD value lists its entries.
RECURSIVE join(_, _)
join(list, sep) ==
    IF Len(list) = 0 THEN <<>>
    ELSE IF Len(list) = 1 THEN list[1]
    ELSE list[1] \o sep \o join(Tail(list), sep)

\* list.remove(x): drops the first element equal to x.
RECURSIVE list_remove(_, _)
list_remove(list, x) ==
    IF Len(list) = 0 THEN list
    ELSE IF Head(list) = x THEN Tail(list)
    ELSE <<Head(list)>> \o list_remove(Tail(list), x)

\* f"lib{lib_type}.so"
lib_so(lib_type) == lib_prefix \o lib_type \o so_suffix

\* os.getenv(name, default)
getenv(name, dflt) == IF name \in DOMAIN os_environ THEN os_environ[name] ELSE dflt

\* glob.glob(library_file) for a pattern without wildcards: the file, if present.
glob(pattern) == IF pattern \in files THEN <<pattern>> ELSE <<>>

---------------------------------------------------------------------------
(* Launcher.__init__                                                       *)

ma_supported == <<auto, default, tcmalloc, jemalloc>>

omp_supported == <<auto, default, intel>>

\* The fixed tail of self.library_paths.
system_library_paths == <<user_home \o slash \o local_lib, usr_local_lib, usr_local_lib64, usr_lib, usr_lib64, usr_lib_x86_64>>

\* self.library_paths as __init__ builds it from the environment env.
init_library_paths(env) ==
    (IF "CONDA_PREFIX" \in DOMAIN env THEN <<env["CONDA_PREFIX"] \o lib_dir>> ELSE <<>>)
    \o (IF "VIRTUAL_ENV" \in DOMAIN env THEN <<env["VIRTUAL_ENV"] \o lib_dir>> ELSE <<>>)
    \o system_library_paths

\* self.ld_preload as __init__ seeds it from the environment env.
init_ld_preload(env) ==
    IF "LD_PRELOAD" \in DOMAIN env THEN split(env["LD_PRELOAD"], colon) ELSE <<>>

---------------------------------------------------------------------------
(* Launcher.verbose: one emitted line, through the logger or by print.     *)

\* The text of a message: its template (id) and the values interpolated in it.
Msg(id, a, b, text) == [id |-> id, a |-> a, b |-> b, text |-> text, env |-> "", ambient |-> "", desired |-> ""]

\* The text of add_env's conflict warning.
EnvMsg(env_name, ambient, desired) == [id |-> "env_conflict", a |-> <<>>, b |-> <<>>, text |-> "", env |-> env_name, ambient |-> ambient, desired |-> desired]

\* Mutant: logging_fn knows the "warning" level only.
verbose_warning_only(msgs, level, msg) ==
    IF logger
    THEN IF level \in {"warning"}
         THEN Append(msgs, [via |-> "logger", level |-> level, msg |-> msg])
         ELSE Append(msgs, [via |-> "AssertionError", level |-> level, msg |-> msg])
    ELSE Append(msgs, [via |-> "print", level |-> level, msg |-> msg])

verbose(msgs, level, msg) ==
    IF logger
    THEN IF level \in {"warning", "info"}
         THEN Append(msgs, [via |-> "logger", level |-> level, msg |-> msg])
         ELSE Append(msgs, [via |-> "AssertionError", level |-> level, msg |-> msg])
    ELSE Append(msgs, [via |-> "print", level |-> level, msg |-> msg])

---------------------------------------------------------------------------
(* Launcher.add_lib_preload                                                *)

\* First loop: an entry of ld already names lib<lib_type>.so.
lib_set(ld, lib_type) == \E i \in 1..Len(ld) : endswith(ld[i], lib_so(lib_type))

\* The file looked for in one directory (a trailing "/" stripped, then joined).
library_file(lib_path, lib_type) ==
    (IF endswith(lib_path, slash) THEN SubSeq(lib_path, 1, Len(lib_path) - 1) ELSE lib_path)
    \o slash \o lib_so(lib_type)

\* Mutant: the last directory with a match wins, not the first.
RECURSIVE search_library_last(_, _)
search_library_last(paths, lib_type) ==
    IF Len(paths) = 0 THEN <<>>
    ELSE IF Len(search_library_last(Tail(paths), lib_type)) > 0
    THEN search_library_last(Tail(paths), lib_type)
    ELSE IF Len(glob(library_file(Head(paths), lib_type))) > 0
    THEN <<glob(library_file(Head(paths), lib_type))[1]>>
    ELSE <<>>

\* Second loop: <<matches[0]>> of the first directory with a match, or <<>>
\* (lib_found stays False).
RECURSIVE search_library(_, _)
search_library(paths, lib_type) ==
    IF Len(paths) = 0 THEN <<>>
    ELSE IF Len(glob(library_file(Head(paths), lib_type))) > 0
    THEN <<glob(library_file(Head(paths), lib_type))[1]>>
    ELSE search_library(Tail(paths), lib_type)

\* Mutant: an entry that is already queued no longer counts as success.
preload_result_found_only(ld, is_set, found) == [ret |-> Len(found) > 0, ld_preload |-> ld \o found]

\* return lib_set or lib_found, with the path found appended to self.ld_preload.
preload_result(ld, is_set, found) == [ret |-> is_set \/ Len(found) > 0, ld_preload |-> ld \o found]

add_lib_preload(ld, lib_type) ==
    preload_result(ld, lib_set(ld, lib_type),
                   IF lib_set(ld, lib_type) THEN <<>> ELSE search_library(library_paths, lib_type))

---------------------------------------------------------------------------
(* Launcher.add_env                                                        *)

\* Mutant: the desired value overrides a conflicting ambient value.
add_env_override(es, msgs, env_name, env_value) ==
    IF getenv(env_name, "") # "" /\ getenv(env_name, "") # env_value
    THEN [environ_set |-> (env_name :> env_value) @@ es,
          msgs |-> verbose(msgs, "warning", EnvMsg(env_name, os_environ[env_name], env_value))]
    ELSE [environ_set |-> (env_name :> env_value) @@ es, msgs |-> msgs]

add_env(es, msgs, env_name, env_value) ==
    IF getenv(env_name, "") # "" /\ getenv(env_name, "") # env_value
    THEN [environ_set |-> (env_name :> os_environ[env_name]) @@ es,
          msgs |-> verbose(msgs, "warning", EnvMsg(env_name, os_environ[env_name], env_value))]
    ELSE [environ_set |-> (env_name :> env_value) @@ es, msgs |-> msgs]

---------------------------------------------------------------------------
(* Launcher.set_lib_bin_from_list                                          *)

\* name_map[name]: a dict is kept as the sequence of its entries in insertion order.
name_map_get(name_map, name) == name_map[CHOOSE i \in 1..Len(name_map) : name_map[i].key = name]

\* fn(token): self.add_lib_preload, or another callable, which reports the
\* tokens in fn.found as present and leaves the launcher alone.
call_fn(fn, ld, token) ==
    IF fn.kind = "add_lib_preload"
    THEN add_lib_preload(ld, token)
    ELSE [ret |-> token \in fn.found, ld_preload |-> ld]

\* Mutant: the request is compared as typed.
lowered_name_as_typed(name_input) == name_input

\* name_local = name_input.lower()
lowered_name(name_input) == lower(name_input)

\* Mutant: an unknown name is kept.
normalize_name_keep(name_input, supported) == lowered_name(name_input)

\* name_local after the unknown-name check.
normalize_name(name_input, supported) ==
    IF lowered_name(name_input) \notin Range(supported) THEN supported[1] ELSE lowered_name(name_input)

\* Mutant: the skip list is not consulted for the requested name.
exclude_name_ignored(name_local, supported, skip_list) == name_local

\* name_local after the skip-list check.
exclude_name(name_local, supported, skip_list) ==
    IF name_local \in Range(skip_list) THEN supported[1] ELSE name_local

\* The warnings of the two checks.
input_warnings(name_input, supported, skip_list) ==
    LET unknown == IF lowered_name(name_input) \notin Range(supported)
                   THEN verbose(<<>>, "warning", Msg("unknown", name_input, supported[1], ""))
                   ELSE <<>>
    IN  IF normalize_name(name_input, supported) \in Range(skip_list)
        THEN verbose(unknown, "warning", Msg("not_applicable", name_input, supported[1], ""))
        ELSE unknown

RECURSIVE auto_probe(_, _, _, _, _, _, _)

\* Mutant: the loop over the candidates does not stop at the first success.
auto_probe_step_no_break(name_local, names, name_map, fn, skip_list, probed, r) ==
    auto_probe(IF r.ret THEN Head(names) ELSE name_local, Tail(names), name_map, fn, skip_list,
               r.ld_preload, Append(probed, <<Head(names), r.ret>>))

\* One round of the loop, r being what fn returned for Head(names).
auto_probe_step(name_local, names, name_map, fn, skip_list, probed, r) ==
    IF r.ret
    THEN [name_local |-> Head(names), ld_preload |-> r.ld_preload,
          probed |-> Append(probed, <<Head(names), r.ret>>)]
    ELSE auto_probe(name_local, Tail(names), name_map, fn, skip_list, r.ld_preload,
                    Append(probed, <<Head(names), r.ret>>))

\* for name in supported[2:] of the 'auto' branch; probed lists the calls of fn.
auto_probe(name_local, names, name_map, fn, skip_list, ld, probed) ==
    IF Len(names) = 0
    THEN [name_local |-> name_local, ld_preload |-> ld, probed |-> probed]
    ELSE IF Head(names) \in Range(skip_list)
    THEN auto_probe(name_local, Tail(names), name_map, fn, skip_list, ld, probed)
    ELSE auto_probe_step(name_local, names, name_map, fn, skip_list, probed,
                         call_fn(fn, ld, name_map_get(name_map, Head(names)).token))

\* Mutant: the fallback after a fruitless loop is forgotten.
auto_fallback_missing(name_local, supported) == name_local

\* After the loop: still 'auto' means nothing was found, so take the default.
auto_fallback(name_local, supported) ==
    IF name_local = supported[1] THEN supported[2] ELSE name_local

\* Mutant: the fallback of an explicit request takes supported[2], the first alternative.
explicit_fallback_off_by_one(found, name_local, supported) ==
    IF ~found THEN supported[3] ELSE name_local

\* The explicit branch: the default when the requested library is not found.
explicit_fallback(found, name_local, supported) ==
    IF ~found THEN supported[2] ELSE name_local

\* The warning of the 'auto' branch when no alternative was found.
not_found_msg(supported) ==
    IF Len(supported) - 2 = 1 THEN "is_not_found"
    ELSE IF Len(supported) - 2 < 3 THEN "neither_is_found"
    ELSE "none_is_found"

\* The end of the 'auto' branch, ap being the outcome of the loop.
auto_result(name_local, supported, extra, msgs, ap) ==
    [name_local |-> auto_fallback(ap.name_local, supported),
     ld_preload |-> ap.ld_preload,
     probed |-> ap.probed,
     msgs |-> IF ap.name_local = supported[1]
              THEN verbose(IF Len(supported) - 2 > 0
                           THEN verbose(msgs, "warning", Msg(not_found_msg(supported), <<>>, <<>>, ""))
                           ELSE msgs,
                           "info", Msg("use", auto_fallback(ap.name_local, supported), <<>>, extra))
              ELSE verbose(msgs, "info", Msg("use_auto", name_local, ap.name_local, ""))]

\* The end of the explicit branch, r being what fn returned for name_local.
explicit_result(name_local, name_map, supported, extra, msgs, r) ==
    [name_local |-> explicit_fallback(r.ret, name_local, supported),
     ld_preload |-> r.ld_preload,
     probed |-> <<<<name_local, r.ret>>>>,
     msgs |-> IF ~r.ret
              THEN verbose(verbose(msgs, "warning",
                                   Msg("unable_to_find", name_local, <<>>, name_map_get(name_map, name_local).hint)),
                           "info", Msg("use", explicit_fallback(r.ret, name_local, supported), <<>>, extra))
              ELSE verbose(msgs, "info", Msg("use", name_local, <<>>, ""))]

\* The three branches on name_local.
resolve(name_local, name_map, supported, fn, skip_list, extra, ld, msgs) ==
    IF name_local = supported[1]
    THEN auto_result(name_local, supported, extra, msgs,
                     auto_probe(name_local, SubSeq(supported, 3, Len(supported)), name_map, fn, skip_list, ld, <<>>))
    ELSE IF name_local \in Range(SubSeq(supported, 3, Len(supported)))
    THEN explicit_result(name_local, name_map, supported, extra, msgs,
                         call_fn(fn, ld, name_map_get(name_map, name_local).token))
    ELSE [name_local |-> name_local, ld_preload |-> ld, probed |-> <<>>,
          msgs |-> verbose(msgs, "info", Msg("use", name_local, <<>>, ""))]

\* Mutant: the loop removes every shared library, whatever its name.
RECURSIVE remove_matching_any(_, _, _)
remove_matching_any(ld, i, suffix) ==
    IF i > Len(ld) THEN ld
    ELSE IF endswith(ld[i], so_suffix)
    THEN remove_matching_any(list_remove(ld, ld[i]), i + 1, suffix)
    ELSE remove_matching_any(ld, i + 1, suffix)

\* for item in self.ld_preload: ... self.ld_preload.remove(item): the list
\* changes under the iterator, which holds the position i (1-based here).
RECURSIVE remove_matching(_, _, _)
remove_matching(ld, i, suffix) ==
    IF i > Len(ld) THEN ld
    ELSE IF endswith(ld[i], suffix)
    THEN remove_matching(list_remove(ld, ld[i]), i + 1, suffix)
    ELSE remove_matching(ld, i + 1, suffix)

\* for k, v in name_map.items(): every entry but the resolved one.
RECURSIVE remove_others(_, _, _)
remove_others(name_map, name_local, ld) ==
    IF Len(name_map) = 0 THEN ld
    ELSE IF Head(name_map).key = name_local
    THEN remove_others(Tail(name_map), name_local, ld)
    ELSE remove_others(Tail(name_map), name_local, remove_matching(ld, 1, lib_so(Head(name_map).token)))

\* The end of the method, res being the outcome of the branches, normalized
\* the value of name_local as the branches found it.
resolution(name_map, fn, normalized, res) ==
    [ret |-> res.name_local,
     ld_preload |-> IF fn.kind = "add_lib_preload"
                    THEN remove_others(name_map, res.name_local, res.ld_preload)
                    ELSE res.ld_preload,
     msgs |-> res.msgs,
     probed |-> res.probed,
     normalized |-> normalized]

\* The whole method: the returned name, self.ld_preload after it, the lines
\* emitted and the calls of fn made.
set_lib_bin_from_list(name_input, name_map, supported, fn, skip_list, extra, ld) ==
    resolution(name_map, fn,
               exclude_name(normalize_name(name_input, supported), supported, skip_list),
               resolve(exclude_name(normalize_name(name_input, supported), supported, skip_list),
                       name_map, supported, fn, skip_list, extra, ld,
                       input_warnings(name_input, supported, skip_list)))

---------------------------------------------------------------------------
(* Launcher.set_memory_allocator and Launcher.set_omp_runtime              *)

ma_lib_name == <<[key |-> jemalloc, token |-> jemalloc, hint |-> "conda install -c conda-forge jemalloc"], [key |-> tcmalloc, token |-> tcmalloc, hint |-> "conda install -c conda-forge gperftools"]>>

omp_lib_name == <<[key |-> intel, token |-> iomp5, hint |-> "conda install intel-openmp"]>>

\* fn = self.add_lib_preload
preload_fn == [kind |-> "add_lib_preload", found |-> {}]

malloc_conf_benchmark == "oversize_threshold:1,background_thread:false,metadata_thp:always,dirty_decay_ms:-1,muzzy_decay_ms:-1"

malloc_conf_general == "oversize_threshold:1,background_thread:true,metadata_thp:auto"

\* What a resolving method hands back: the resolution r with the overlay e.
resolved(r, e) ==
    [ret |-> r.ret, ld_preload |-> r.ld_preload, environ_set |-> e.environ_set,
     msgs |-> e.msgs, probed |-> r.probed, normalized |-> r.normalized]

\* Mutant: MALLOC_CONF follows the allocator asked for, not the one resolved.
memory_allocator_env_requested(r, benchmark, es) ==
    IF r.normalized = jemalloc
    THEN add_env(es, r.msgs, "MALLOC_CONF", IF benchmark THEN malloc_conf_benchmark ELSE malloc_conf_general)
    ELSE [environ_set |-> es, msgs |-> r.msgs]

\* Mutant: MALLOC_CONF is set whichever allocator was resolved.
memory_allocator_env_always(r, benchmark, es) ==
    add_env(es, r.msgs, "MALLOC_CONF", IF benchmark THEN malloc_conf_benchmark ELSE malloc_conf_general)

\* if ma_local == "jemalloc": ..., r being what set_lib_bin_from_list returned.
memory_allocator_env(r, benchmark, es) ==
    IF r.ret = jemalloc
    THEN add_env(es, r.msgs, "MALLOC_CONF", IF benchmark THEN malloc_conf_benchmark ELSE malloc_conf_general)
    ELSE [environ_set |-> es, msgs |-> r.msgs]

\* The method from the call of set_lib_bin_from_list on, r being its result.
memory_allocator_result(r, benchmark, es) == resolved(r, memory_allocator_env(r, benchmark, es))

set_memory_allocator(memory_allocator, benchmark, skip_list, ld, es) ==
    memory_allocator_result(set_lib_bin_from_list(memory_allocator, ma_lib_name, ma_supported, preload_fn,
                                                  skip_list, "This may drop the performance.", ld),
                            benchmark, es)

\* Mutant: KMP_AFFINITY is set whether or not it was asked for.
omp_intel_env_always_affinity(set_kmp_affinity, es, msgs) ==
    add_env(add_env(es, msgs, "KMP_AFFINITY", "granularity=fine,compact,1,0").environ_set,
            add_env(es, msgs, "KMP_AFFINITY", "granularity=fine,compact,1,0").msgs,
            "KMP_BLOCKTIME", "1")

\* The 'intel' branch: KMP_AFFINITY if asked for, then KMP_BLOCKTIME.
omp_intel_env(set_kmp_affinity, es, msgs) ==
    IF set_kmp_affinity
    THEN add_env(add_env(es, msgs, "KMP_AFFINITY", "granularity=fine,compact,1,0").environ_set,
                 add_env(es, msgs, "KMP_AFFINITY", "granularity=fine,compact,1,0").msgs,
                 "KMP_BLOCKTIME", "1")
    ELSE add_env(es, msgs, "KMP_BLOCKTIME", "1")

\* The 'default' branch: OMP_SCHEDULE, then OMP_PROC_BIND.
omp_default_env(es, msgs) ==
    add_env(add_env(es, msgs, "OMP_SCHEDULE", "STATIC").environ_set,
            add_env(es, msgs, "OMP_SCHEDULE", "STATIC").msgs,
            "OMP_PROC_BIND", "CLOSE")

\* if omp_local == "intel": ... elif omp_local == "default": ...
omp_runtime_env(r, set_kmp_affinity, es) ==
    IF r.ret = intel THEN omp_intel_env(set_kmp_affinity, es, r.msgs)
    ELSE IF r.ret = default THEN omp_default_env(es, r.msgs)
    ELSE [environ_set |-> es, msgs |-> r.msgs]

\* The method from the call of set_lib_bin_from_list on, r being its result.
omp_runtime_result(r, set_kmp_affinity, es) == resolved(r, omp_runtime_env(r, set_kmp_affinity, es))

set_omp_runtime(omp_runtime, set_kmp_affinity, ld, es) ==
    omp_runtime_result(set_lib_bin_from_list(omp_runtime, omp_lib_name, omp_supported, preload_fn, <<>>, "", ld),
                       set_kmp_affinity, es)

---------------------------------------------------------------------------
(* Launcher.parse_list_argument                                            *)

\* str.strip(): leading and trailing blanks dropped.
RECURSIVE strip(_)
strip(s) ==
    IF Len(s) = 0 THEN s
    ELSE IF <<Head(s)>> = space THEN strip(Tail(s))
    ELSE IF <<s[Len(s)]>> = space THEN strip(SubSeq(s, 1, Len(s) - 1))
    ELSE s

\* str.isdigit(): not empty and decimal digits only.
isdigit(s) == Len(s) > 0 /\ \A i \in 1..Len(s) : s[i] \in Range(digits)

\* int(s) for a string of decimal digits.
RECURSIVE int(_)
int(s) ==
    IF Len(s) = 0 THEN 0
    ELSE 10 * int(SubSeq(s, 1, Len(s) - 1)) + (CHOOSE d \in 0..9 : digits[d + 1] = s[Len(s)])

\* list(range(begin, end + 1))
range(begin, end) == [i \in 1..(end - begin + 1) |-> begin + i - 1]

\* Mutant: a range is taken as written, its bounds not compared.
assert_order_skipped(begin, end) == TRUE

\* assert begin <= end
assert_order(begin, end) == begin <= end

\* [int(x.strip()) for x in elem.split("-")]: int() raises ValueError on a
\* part that is not a number.
core_range(elem) ==
    IF \E i \in 1..Len(split(elem, hyphen)) : ~isdigit(strip(split(elem, hyphen)[i]))
    THEN [raised |-> "ValueError", vals |-> <<>>]
    ELSE [raised |-> "", vals |-> [i \in 1..Len(split(elem, hyphen)) |-> int(strip(split(elem, hyphen)[i]))]]

\* The two assertions on a token that is not a number, and its range.
range_elem(cr) ==
    IF cr.raised # "" THEN cr
    ELSE IF Len(cr.vals) # 2 THEN [raised |-> "AssertionError: Invalid range format detected.", vals |-> <<>>]
    ELSE IF ~assert_order(cr.vals[1], cr.vals[2])
    THEN [raised |-> "AssertionError: Begining index of a range must be <= ending index.", vals |-> <<>>]
    ELSE [raised |-> "", vals |-> range(cr.vals[1], cr.vals[2])]

\* One round of the loop: what the token elem, stripped, adds to ret.
parse_elem(elem) ==
    IF isdigit(elem) THEN [raised |-> "", vals |-> <<int(elem)>>] ELSE range_elem(core_range(elem))

RECURSIVE parse_elems(_, _)

\* The rest of the loop after token Head(elems) gave r.
parse_elems_step(elems, ret, r) ==
    IF r.raised # "" THEN [raised |-> r.raised, ret |-> <<>>] ELSE parse_elems(Tail(elems), ret \o r.vals)

\* for elem in txt.split(","): an exception ends the call.
parse_elems(elems, ret) ==
    IF Len(elems) = 0 THEN [raised |-> "", ret |-> ret]
    ELSE parse_elems_step(elems, ret, parse_elem(strip(Head(elems))))

\* Mutant: the list is returned as collected, duplicates included.
list_set_keep(ret) == [v \in Range(ret) |-> Cardinality({i \in 1..Len(ret) : ret[i] = v})]

\* list(set(ret)): every element once.  The order of the list is that of
\* the hash table, so the list is kept as the number of times each element
\* occurs in it.
list_set(ret) == [v \in Range(ret) |-> 1]

\* The end of the method, r being the outcome of the loop.
parse_result(r) ==
    IF r.raised # "" THEN [raised |-> r.raised, ret |-> list_set(<<>>)]
    ELSE [raised |-> "", ret |-> list_set(r.ret)]

parse_list_argument(txt) ==
    IF strip(txt) = <<>>
    THEN parse_result([raised |-> "", ret |-> <<>>])
    ELSE parse_result(parse_elems(split(strip(txt), comma), <<>>))

---------------------------------------------------------------------------
(* The environment the launcher is constructed in.                         *)

\* Largest number of calls made on one launcher, a repetition of the last
\* call not counted.
MaxCalls == 1

EmptyEnv == [n \in {} |-> ""]

\* The sequences over S of length at most n.
RECURSIVE SeqsUpTo(_, _)
SeqsUpTo(S, n) ==
    IF n = 0 THEN {<<>>}
    ELSE SeqsUpTo(S, n - 1) \cup {Append(s, x) : s \in SeqsUpTo(S, n - 1), x \in S}

\* Entries an ambient LD_PRELOAD may list: libraries outside the search paths.
AmbientEntries == {opt_jemalloc, alt_jemalloc, opt_tcmalloc, opt_iomp5, opt_foo}

\* LD_PRELOAD is unset or lists 1..MaxPreload entries.
AmbientPreload == {EmptyEnv} \cup {"LD_PRELOAD" :> join(s, colon) : s \in SeqsUpTo(AmbientEntries, MaxPreload) \ {<<>>}}

\* CONDA_PREFIX and VIRTUAL_ENV: neither is set, or both are.
AmbientPrefix == {EmptyEnv, ("CONDA_PREFIX" :> conda_prefix) @@ ("VIRTUAL_ENV" :> virtual_env)}

\* The variables add_env is called for, and the values it is asked to set.
Desired == ("MALLOC_CONF" :> {malloc_conf_benchmark, malloc_conf_general}) @@ ("KMP_AFFINITY" :> {"granularity=fine,compact,1,0"}) @@ ("KMP_BLOCKTIME" :> {"1"}) @@ ("OMP_SCHEDULE" :> {"STATIC"}) @@ ("OMP_PROC_BIND" :> {"CLOSE"})

\* At most one of them is set in the ambient environment: to the empty
\* string, to a desired value, or to another value.
AmbientTuning == {EmptyEnv} \cup UNION {{n :> v : v \in Desired[n] \cup {"", "DYNAMIC"}} : n \in DOMAIN Desired}

\* Library files that may be present on disk.
FileUniverse == {conda_jemalloc, venv_jemalloc, usr_lib_jemalloc, usr_local_lib_tcmalloc, usr_lib64_iomp5}

\* The environments explored vary one aspect at a time: the ambient
\* LD_PRELOAD (no logger; tcmalloc and iomp5 on disk, jemalloc not), the
\* files on disk with the search prefixes, or the ambient tuning variables
\* (every library on disk).
Ambients ==
    {[logger |-> FALSE, env |-> l, files |-> {usr_local_lib_tcmalloc, usr_lib64_iomp5}] : l \in AmbientPreload}
    \cup {[logger |-> TRUE, env |-> p, files |-> f] : p \in AmbientPrefix, f \in SUBSET FileUniverse}
    \cup {[logger |-> TRUE, env |-> t, files |-> FileUniverse] : t \in AmbientTuning}

---------------------------------------------------------------------------
(* The calls made on the launcher.  call observes the last one until the   *)
(* caller drops it: its arguments, the fields before it, what it returned, *)
(* the lines it emitted and the probes it made.                            *)

RequestedAllocators == {auto, default, tcmalloc, jemalloc, Jemalloc, foobar}

RequestedRuntimes == {auto, default, intel, INTEL, foobar}

SkipLists == {<<>>, <<jemalloc>>, <<tcmalloc>>, <<tcmalloc, jemalloc>>}

\* Arguments of direct calls of set_lib_bin_from_list with a probe of the caller's.
GenericSupported == {<<auto, default>>, ma_supported}

GenericRequests == {auto, jemalloc}

GenericSkipLists == {<<>>, <<default>>}

GenericProbes == {[kind |-> "probe", found |-> s] : s \in {{}, {jemalloc}, {tcmalloc, jemalloc}}}

NoCall == [op |-> "idle", name_input |-> <<>>, flag |-> FALSE, skip_list |-> <<>>, supported |-> <<>>, fn |-> preload_fn, env_name |-> "", env_value |-> "", lib_type |-> <<>>, pre_ld_preload |-> <<>>, pre_environ_set |-> EmptyEnv, ret |-> <<>>, found |-> FALSE, msgs |-> <<>>, probed |-> <<>>, normalized |-> <<>>, repeated |-> FALSE, prev_ret |-> <<>>]

Init ==
    /\ \E a \in Ambients : logger = a.logger /\ os_environ = a.env /\ files = a.files
    /\ library_paths = init_library_paths(os_environ)
    /\ ld_preload = init_ld_preload(os_environ)
    /\ environ_set = EmptyEnv
    /\ call = NoCall
    /\ ncalls = 0

Ambient == <<logger, os_environ, files, library_paths>>

\* A new call can be made.
Idle == call.op = "idle" /\ ncalls < MaxCalls

AddLibPreloadCall(lib_type, r) ==
    /\ ld_preload' = r.ld_preload
    /\ call' = [NoCall EXCEPT !.op = "add_lib_preload", !.lib_type = lib_type, !.pre_ld_preload = ld_preload, !.pre_environ_set = environ_set, !.found = r.ret]
    /\ ncalls' = ncalls + 1
    /\ UNCHANGED <<Ambient, environ_set>>

AddLibPreload ==
    /\ Idle
    /\ \E lib_type \in {jemalloc, tcmalloc, iomp5} : AddLibPreloadCall(lib_type, add_lib_preload(ld_preload, lib_type))

AddEnvCall(env_name, env_value, r) ==
    /\ environ_set' = r.environ_set
    /\ call' = [NoCall EXCEPT !.op = "add_env", !.env_name = env_name, !.env_value = env_value, !.pre_ld_preload = ld_preload, !.pre_environ_set = environ_set, !.msgs = r.msgs]
    /\ ncalls' = ncalls + 1
    /\ UNCHANGED <<Ambient, ld_preload>>

AddEnv ==
    /\ Idle
    /\ \E env_name \in DOMAIN Desired : \E env_value \in Desired[env_name] :
           AddEnvCall(env_name, env_value, add_env(environ_set, <<>>, env_name, env_value))

SetLibBinFromListCall(name_input, supported, fn, skip_list, r) ==
    /\ ld_preload' = r.ld_preload
    /\ call' = [NoCall EXCEPT !.op = "set_lib_bin_from_list", !.name_input = name_input, !.skip_list = skip_list, !.supported = supported, !.fn = fn, !.pre_ld_preload = ld_preload, !.pre_environ_set = environ_set, !.ret = r.ret, !.msgs = r.msgs, !.probed = r.probed, !.normalized = r.normalized]
    /\ ncalls' = ncalls + 1
    /\ UNCHANGED <<Ambient, environ_set>>

SetLibBinFromList ==
    /\ Idle
    /\ \E name_input \in GenericRequests, supported \in GenericSupported, fn \in GenericProbes, skip_list \in GenericSkipLists :
           SetLibBinFromListCall(name_input, supported, fn, skip_list,
                                 set_lib_bin_from_list(name_input, ma_lib_name, supported, fn, skip_list, "", ld_preload))

ResolveCall(op, name_input, flag, skip_list, supported, repeated, r) ==
    /\ ld_preload' = r.ld_preload
    /\ environ_set' = r.environ_set
    /\ call' = [NoCall EXCEPT !.op = op, !.name_input = name_input, !.flag = flag, !.skip_list = skip_list, !.supported = supported, !.pre_ld_preload = ld_preload, !.pre_environ_set = environ_set, !.ret = r.ret, !.msgs = r.msgs, !.probed = r.probed, !.normalized = r.normalized, !.repeated = repeated, !.prev_ret = call.ret]
    /\ UNCHANGED Ambient

SetMemoryAllocator ==
    /\ Idle
    /\ ncalls' = ncalls + 1
    /\ \E memory_allocator \in RequestedAllocators, benchmark \in BOOLEAN, skip_list \in SkipLists :
           ResolveCall("set_memory_allocator", memory_allocator, benchmark, skip_list, ma_supported, FALSE,
                       set_memory_allocator(memory_allocator, benchmark, skip_list, ld_preload, environ_set))

SetOmpRuntime ==
    /\ Idle
    /\ ncalls' = ncalls + 1
    /\ \E omp_runtime \in RequestedRuntimes, set_kmp_affinity \in BOOLEAN :
           ResolveCall("set_omp_runtime", omp_runtime, set_kmp_affinity, <<>>, omp_supported, FALSE,
                       set_omp_runtime(omp_runtime, set_kmp_affinity, ld_preload, environ_set))

\* The caller makes the call it has just made once more, with the same arguments.
RepeatSetMemoryAllocator ==
    /\ call.op = "set_memory_allocator" /\ ~call.repeated
    /\ UNCHANGED ncalls
    /\ ResolveCall(call.op, call.name_input, call.flag, call.skip_list, call.supported, TRUE,
                   set_memory_allocator(call.name_input, call.flag, call.skip_list, ld_preload, environ_set))

RepeatSetOmpRuntime ==
    /\ call.op = "set_omp_runtime" /\ ~call.repeated
    /\ UNCHANGED ncalls
    /\ ResolveCall(call.op, call.name_input, call.flag, call.skip_list, call.supported, TRUE,
                   set_omp_runtime(call.name_input, call.flag, ld_preload, environ_set))

\* The caller is done with the result of the last call.
Return ==
    /\ call.op # "idle"
    /\ call' = NoCall
    /\ UNCHANGED <<Ambient, ld_preload, environ_set, ncalls>>

Next ==
    \/ AddLibPreload
    \/ AddEnv
    \/ SetLibBinFromList
    \/ SetMemoryAllocator
    \/ SetOmpRuntime
    \/ RepeatSetMemoryAllocator
    \/ RepeatSetOmpRuntime
    \/ Return

Spec == Init /\ [][Next]_vars

---------------------------------------------------------------------------
(* Vocabulary of the properties.                                           *)

\* The last call went through set_lib_bin_from_list.
Resolving == call.op \in {"set_lib_bin_from_list", "set_memory_allocator", "set_omp_runtime"}

\* The last call was one of the two resolving methods of the launcher.
Resolved == call.op \in {"set_memory_allocator", "set_omp_runtime"}

\* The name map the last call resolved with.
CallNameMap == IF call.op = "set_omp_runtime" THEN omp_lib_name ELSE ma_lib_name

\* The concrete candidates of a supported list, in order.
Candidates(supported) == SubSeq(supported, 3, Len(supported))

\* The search token of a candidate of the last call.
TokenOf(name) == name_map_get(CallNameMap, name).token

\* Entry item names the library of search token t.
Names(item, t) == endswith(item, lib_so(t))

\* The candidates the 'auto' policy may probe: those not excluded, in order.
Eligible == SelectSeq(Candidates(call.supported), LAMBDA n : n \notin Range(call.skip_list))

\* The positions of ld_preload whose entry was not in the list before the call.
Appended == {i \in 1..Len(ld_preload) : ld_preload[i] \notin Range(call.pre_ld_preload)}

\* No directory of the search-path list holds lib<t>.so.
Absent(t) == \A i \in 1..Len(library_paths) : library_file(library_paths[i], t) \notin files

\* Two characters are the same letter: equal, or the two cases of one letter.
SameLetter(c, d) == c = d \/ \E i \in 1..Len(upper_case) : {c, d} = {upper_case[i], lower_case[i]}

\* Two names differ at most in the case of their letters.
SameButCase(m, n) == Len(m) = Len(n) /\ \A i \in 1..Len(m) : SameLetter(m[i], n[i])

\* The last call left the launcher as outcome a describes, and returned a.ret.
SameOutcome(a) == call.ret = a.ret /\ ld_preload = a.ld_preload /\ environ_set = a.environ_set

\* The last call emitted one warning, which names its input as unknown, and
\* then the lines of outcome a.
SameLinesAfterWarning(a) ==
    /\ Len(call.msgs) = Len(a.msgs) + 1
    /\ call.msgs[1].level = "warning"
    /\ call.msgs[1].msg.id = "unknown"
    /\ call.msgs[1].msg.a = call.name_input
    /\ Tail(call.msgs) = a.msgs
    /\ \A i \in 1..Len(a.msgs) : a.msgs[i].msg.id # "unknown"

\* What the method of the last call does for the request name, from the state
\* the last call started in and with its other arguments.
OutcomeFor(name) ==
    IF call.op = "set_memory_allocator"
    THEN set_memory_allocator(name, call.flag, call.skip_list, call.pre_ld_preload, call.pre_environ_set)
    ELSE set_omp_runtime(name, call.flag, call.pre_ld_preload, call.pre_environ_set)

---------------------------------------------------------------------------
(* Properties.                                                             *)

\* C1: set_lib_bin_from_list never returns 'auto': it returns the default
\* choice (index 1) or a concrete candidate (index >= 2) for which the probe
\* returned true during this call.
C1_NeverAuto ==
    Resolving =>
        /\ call.ret # auto
        /\ \/ call.ret = call.supported[2]
           \/ /\ call.ret \in Range(Candidates(call.supported))
              /\ \E i \in 1..Len(call.probed) : call.probed[i] = <<call.ret, TRUE>>

\* C1 witness: an 'auto' request whose probes all failed came back as the default.
C1_Witness ==
    /\ call.op = "set_lib_bin_from_list"
    /\ call.name_input = auto
    /\ call.probed = <<<<tcmalloc, FALSE>>, <<jemalloc, FALSE>>>>
    /\ call.ret = default

\* C2: after set_memory_allocator or set_omp_runtime returns, the PreloadList
\* holds at most one entry matching lib<token>.so for a token of the
\* category's name map.
C2_AtMostOnePerCategory ==
    Resolved =>
        Cardinality({i \in 1..Len(ld_preload) :
                        \E k \in 1..Len(CallNameMap) : Names(ld_preload[i], CallNameMap[k].token)}) <= 1

\* C3: after a resolution with the add_lib_preload probe returned R, the
\* PreloadList holds no entry ending in lib<token>.so for the token of any
\* candidate of the name map other than R.
C3_OthersRemoved ==
    Resolved =>
        \A k \in 1..Len(CallNameMap) :
            CallNameMap[k].key # call.ret =>
                \A i \in 1..Len(ld_preload) : ~Names(ld_preload[i], CallNameMap[k].token)

\* C4: a request normalized to 'auto' probes the candidates that are not
\* excluded in the order of the supported list and stops at the first success,
\* which is the resolved choice; no later candidate is probed and only the
\* resolved candidate's path can have been appended to the PreloadList; if no
\* probe succeeds the result is the default.
C4_AutoFirstAvailable ==
    (Resolving /\ call.normalized = auto) =>
        /\ Len(call.probed) <= Len(Eligible)
        /\ \A i \in 1..Len(call.probed) :
               /\ call.probed[i][1] = Eligible[i]
               /\ call.probed[i][2] = (i = Len(call.probed) /\ call.ret # call.supported[2])
        /\ IF call.ret = call.supported[2]
           THEN Len(call.probed) = Len(Eligible) /\ Appended = {}
           ELSE /\ Len(call.probed) > 0
                /\ call.ret = call.probed[Len(call.probed)][1]
                /\ \A i \in Appended : Names(ld_preload[i], TokenOf(call.ret))

\* C4 witness: tcmalloc was found first, so jemalloc, although on disk, was not probed.
C4_Witness ==
    /\ call.op = "set_memory_allocator"
    /\ call.name_input = auto
    /\ call.probed = <<<<tcmalloc, TRUE>>>>
    /\ ~Absent(jemalloc)
    /\ call.ret = tcmalloc
    /\ Appended # {}

\* C5: a request normalized to a concrete candidate that is not excluded probes
\* that candidate only; the result is that candidate if the probe succeeds and
\* the default otherwise, never another candidate, and no other candidate's
\* path is appended to the PreloadList.
C5_ExplicitOnly ==
    (Resolving /\ call.normalized \in Range(Candidates(call.supported))) =>
        /\ Len(call.probed) = 1
        /\ call.probed[1][1] = call.normalized
        /\ call.ret = IF call.probed[1][2] THEN call.normalized ELSE call.supported[2]
        /\ \A i \in Appended : call.probed[1][2] /\ Names(ld_preload[i], TokenOf(call.normalized))

\* C5 witness: jemalloc was requested and is missing, tcmalloc is on disk,
\* and the result is the default.
C5_Witness ==
    /\ call.op = "set_memory_allocator"
    /\ call.name_input = jemalloc
    /\ call.probed = <<<<jemalloc, FALSE>>>>
    /\ ~Absent(tcmalloc)
    /\ call.ret = default

\* C6 as claimed: requesting 'jemalloc' when no search directory holds
\* libjemalloc.so makes set_memory_allocator return 'default' and add no
\* MALLOC_CONF to the overlay, whatever the ambient environment.
C6_AsClaimed ==
    (call.op = "set_memory_allocator" /\ call.name_input = jemalloc /\ Absent(jemalloc)) =>
        /\ call.ret = default
        /\ "MALLOC_CONF" \in DOMAIN environ_set => "MALLOC_CONF" \in DOMAIN call.pre_environ_set

\* C6 amended: requesting 'jemalloc', not excluded by the skip list, when no
\* search directory holds libjemalloc.so and the PreloadList has no entry
\* ending in libjemalloc.so when the call starts, makes set_memory_allocator
\* return 'default' and leave the overlay as it was.
C6_JemallocFallback ==
    (/\ call.op = "set_memory_allocator"
     /\ call.name_input = jemalloc
     /\ jemalloc \notin Range(call.skip_list)
     /\ Absent(jemalloc)
     /\ \A i \in 1..Len(call.pre_ld_preload) : ~Names(call.pre_ld_preload[i], jemalloc)) =>
        /\ call.ret = default
        /\ environ_set = call.pre_environ_set

\* C6 witness: such a request fell back to the default although tcmalloc is on disk.
C6_Witness ==
    /\ call.op = "set_memory_allocator"
    /\ call.name_input = jemalloc
    /\ call.skip_list = <<>>
    /\ Absent(jemalloc)
    /\ ~Absent(tcmalloc)
    /\ \A i \in 1..Len(call.pre_ld_preload) : ~Names(call.pre_ld_preload[i], jemalloc)
    /\ call.ret = default
    /\ environ_set = EmptyEnv

\* C7: a requested name that is not in the supported list after lower-casing
\* resolves as 'auto' does from the same state: same name returned, same
\* PreloadList, same overlay, and the same lines after one more warning, the
\* first, which names the input; the call does not fail.
C7_UnknownIsAuto ==
    (Resolved /\ lower(call.name_input) \notin Range(call.supported)) =>
        /\ SameOutcome(OutcomeFor(auto))
        /\ SameLinesAfterWarning(OutcomeFor(auto))
        /\ \A i \in 1..Len(call.msgs) : call.msgs[i].via # "AssertionError"

\* C7 witness: 'foobar' was requested and the auto policy found jemalloc.
C7_Witness ==
    /\ call.op = "set_memory_allocator"
    /\ call.name_input = foobar
    /\ call.probed = <<<<tcmalloc, FALSE>>, <<jemalloc, TRUE>>>>
    /\ call.ret = jemalloc

\* C8: two requested names that differ only in letter case, run from the same
\* state with the same other arguments, give the same resolved name, the
\* same PreloadList and the same overlay.
C8_CaseInsensitive ==
    Resolved =>
        \A name \in RequestedAllocators \cup RequestedRuntimes :
            (name # call.name_input /\ SameButCase(name, call.name_input)) => SameOutcome(OutcomeFor(name))

\* C8 witness: 'Jemalloc' was requested and jemalloc was resolved from disk.
C8_Witness ==
    /\ call.op = "set_memory_allocator"
    /\ call.name_input = Jemalloc
    /\ call.ret = jemalloc
    /\ ~Absent(tcmalloc)
    /\ Appended # {}

\* C9: add_env records the ambient value and emits exactly one warning, about
\* that variable, when the ambient environment holds the variable with a
\* non-empty value different from the desired one; otherwise (unset, empty or
\* equal) it records the desired value and emits nothing.
C9_AmbientWins ==
    call.op = "add_env" =>
        IF /\ call.env_name \in DOMAIN os_environ
           /\ os_environ[call.env_name] # ""
           /\ os_environ[call.env_name] # call.env_value
        THEN /\ call.env_name \in DOMAIN environ_set
             /\ environ_set[call.env_name] = os_environ[call.env_name]
             /\ Len(call.msgs) = 1
             /\ call.msgs[1].level = "warning"
             /\ call.msgs[1].msg.env = call.env_name
             /\ call.msgs[1].msg.ambient = os_environ[call.env_name]
             /\ call.msgs[1].msg.desired = call.env_value
        ELSE /\ call.env_name \in DOMAIN environ_set
             /\ environ_set[call.env_name] = call.env_value
             /\ call.msgs = <<>>

\* C9 witness: ambient OMP_SCHEDULE=DYNAMIC, desired STATIC, recorded DYNAMIC.
C9_Witness ==
    /\ call.op = "add_env"
    /\ call.env_name = "OMP_SCHEDULE"
    /\ call.env_value = "STATIC"
    /\ "OMP_SCHEDULE" \in DOMAIN os_environ
    /\ os_environ["OMP_SCHEDULE"] = "DYNAMIC"
    /\ environ_set["OMP_SCHEDULE"] = "DYNAMIC"

\* C10: set_memory_allocator or set_omp_runtime called twice in a row with
\* the same arguments returns the same name both times, and the overlay after
\* the second call equals the overlay after the first.
C10_Idempotent ==
    (Resolved /\ call.repeated) =>
        /\ call.ret = call.prev_ret
        /\ environ_set = call.pre_environ_set

\* C10 witness: the second of two calls for jemalloc, which the first call
\* had found on disk and queued, with MALLOC_CONF in the overlay.
C10_Witness ==
    /\ call.op = "set_memory_allocator"
    /\ call.repeated
    /\ "LD_PRELOAD" \notin DOMAIN os_environ
    /\ call.ret = jemalloc
    /\ call.pre_ld_preload # <<>>
    /\ "MALLOC_CONF" \in DOMAIN environ_set

\* C13: set_memory_allocator and set_omp_runtime always complete and return
\* a name of the supported list other than 'auto', with or without a logger,
\* whatever the request, the skip list, the ambient environment and the
\* files on disk; no line they emit trips the level assertion of verbose.
C13_NeverRaises ==
    Resolved =>
        /\ call.ret \in Range(call.supported) \ {auto}
        /\ Len(call.msgs) > 0
        /\ \A i \in 1..Len(call.msgs) :
               /\ call.msgs[i].via = (IF logger THEN "logger" ELSE "print")
               /\ call.msgs[i].level \in {"warning", "info"}

\* C13 witness: with a logger injected, an unknown name and nothing on disk
\* gave two warnings and one info line, and the default came back.
C13_Witness ==
    /\ call.op = "set_memory_allocator"
    /\ logger
    /\ call.name_input = foobar
    /\ files = {}
    /\ call.ret = default
    /\ Len(call.msgs) = 3
    /\ call.msgs[3].level = "info"

\* The last call emitted one warning, which says its input is not applicable,
\* and then the lines of outcome a.
SameLinesAfterExclusion(a) ==
    /\ Len(call.msgs) = Len(a.msgs) + 1
    /\ call.msgs[1].level = "warning"
    /\ call.msgs[1].msg.id = "not_applicable"
    /\ call.msgs[1].msg.a = call.name_input
    /\ Tail(call.msgs) = a.msgs
    /\ \A i \in 1..Len(a.msgs) : a.msgs[i].msg.id # "not_applicable"

\* C15: the resolved name is never a concrete candidate of the skip list and
\* no excluded candidate is probed; a request for an excluded candidate gives
\* the name, the PreloadList and the overlay that 'auto' gives with the same
\* skip list from the same state, and the same lines after one more warning.
C15_ExcludedNeverUsed ==
    Resolving =>
        /\ call.ret \notin Range(Candidates(call.supported)) \cap Range(call.skip_list)
        /\ \A i \in 1..Len(call.probed) : call.probed[i][1] \notin Range(call.skip_list)
        /\ (/\ call.op = "set_memory_allocator"
            /\ lower(call.name_input) \in Range(Candidates(call.supported)) \cap Range(call.skip_list)) =>
               /\ SameOutcome(OutcomeFor(auto))
               /\ SameLinesAfterExclusion(OutcomeFor(auto))

\* C15 witness: jemalloc was requested and excluded; it is on disk and
\* tcmalloc is not, only tcmalloc was probed and the default came back.
C15_Witness ==
    /\ call.op = "set_memory_allocator"
    /\ call.name_input = jemalloc
    /\ call.skip_list = <<jemalloc>>
    /\ ~Absent(jemalloc)
    /\ call.probed = <<<<tcmalloc, FALSE>>>>
    /\ call.ret = default

\* The value the overlay records for a variable the launcher wants set to
\* desired: the ambient value when it is set, non-empty and different.
Recorded(env_name, desired) ==
    IF env_name \in DOMAIN os_environ /\ os_environ[env_name] \notin {"", desired}
    THEN os_environ[env_name]
    ELSE desired

\* The overlay the last call started with, with the variables of group set
\* (group maps each variable to its desired value) and nothing else changed.
OverlayWith(group) ==
    [n \in DOMAIN call.pre_environ_set \cup DOMAIN group |->
        IF n \in DOMAIN group THEN Recorded(n, group[n]) ELSE call.pre_environ_set[n]]

\* C16: set_memory_allocator puts MALLOC_CONF in the overlay exactly when
\* the resolved allocator is 'jemalloc', the desired value being the
\* low-latency preset when benchmark is true and the general-purpose preset
\* otherwise; for 'tcmalloc' and 'default' the overlay is as before the call.
C16_MallocConfIffJemalloc ==
    call.op = "set_memory_allocator" =>
        IF call.ret = jemalloc
        THEN environ_set = OverlayWith("MALLOC_CONF" :> (IF call.flag THEN malloc_conf_benchmark ELSE malloc_conf_general))
        ELSE call.ret \in {tcmalloc, default} /\ environ_set = call.pre_environ_set

\* C16 witness: jemalloc resolved for a benchmark run with no ambient
\* MALLOC_CONF recorded the low-latency preset.
C16_Witness ==
    /\ call.op = "set_memory_allocator"
    /\ call.flag
    /\ call.ret = jemalloc
    /\ "MALLOC_CONF" \notin DOMAIN os_environ
    /\ call.pre_environ_set = EmptyEnv
    /\ environ_set = ("MALLOC_CONF" :> malloc_conf_benchmark)
    /\ malloc_conf_benchmark # malloc_conf_general

\* C17: one call of set_omp_runtime sets exactly one of two groups of
\* variables in the overlay: for 'intel', KMP_BLOCKTIME (desired "1") and,
\* exactly when set_kmp_affinity is true, KMP_AFFINITY (desired
\* "granularity=fine,compact,1,0"); for 'default', OMP_SCHEDULE (desired
\* "STATIC") and OMP_PROC_BIND (desired "CLOSE"); no other variable changes.
C17_OneGroup ==
    call.op = "set_omp_runtime" =>
        /\ call.ret \in {intel, default}
        /\ call.ret = intel =>
               environ_set = OverlayWith(IF call.flag
                                          THEN ("KMP_AFFINITY" :> "granularity=fine,compact,1,0") @@ ("KMP_BLOCKTIME" :> "1")
                                          ELSE ("KMP_BLOCKTIME" :> "1"))
        /\ call.ret = default =>
               environ_set = OverlayWith(("OMP_SCHEDULE" :> "STATIC") @@ ("OMP_PROC_BIND" :> "CLOSE"))

\* C17 witness: 'intel' resolved without the affinity setting, so that the
\* overlay holds KMP_BLOCKTIME alone.
C17_Witness ==
    /\ call.op = "set_omp_runtime"
    /\ ~call.flag
    /\ call.ret = intel
    /\ call.pre_environ_set = EmptyEnv
    /\ environ_set = ("KMP_BLOCKTIME" :> "1")

\* The search-path list in its fixed order: $CONDA_PREFIX/lib/ and
\* $VIRTUAL_ENV/lib/ when set, ~/.local/lib/, then the system directories.
SearchOrder ==
    (IF "CONDA_PREFIX" \in DOMAIN os_environ THEN <<os_environ["CONDA_PREFIX"] \o lib_dir>> ELSE <<>>)
    \o (IF "VIRTUAL_ENV" \in DOMAIN os_environ THEN <<os_environ["VIRTUAL_ENV"] \o lib_dir>> ELSE <<>>)
    \o <<user_home \o slash \o local_lib, usr_local_lib, usr_local_lib64, usr_lib, usr_lib64, usr_lib_x86_64>>

\* The positions of the search-path list whose directory holds lib<t>.so.
Holding(t) == {i \in 1..Len(SearchOrder) : SearchOrder[i] \o lib_so(t) \in files}

\* The path of lib<t>.so in the first directory that holds it.
FirstHeld(t) == SearchOrder[CHOOSE i \in Holding(t) : \A j \in Holding(t) : i <= j] \o lib_so(t)

\* C18: add_lib_preload(token) returns true and leaves the PreloadList alone
\* when an entry already matches lib<token>.so; otherwise it scans the
\* search-path list in its fixed order, appends the one path of the first
\* directory holding lib<token>.so and returns true; with no such directory
\* it returns false and leaves the list alone.
C18_PreloadProbe ==
    call.op = "add_lib_preload" =>
        /\ library_paths = SearchOrder
        /\ IF \E i \in 1..Len(call.pre_ld_preload) : Names(call.pre_ld_preload[i], call.lib_type)
           THEN call.found /\ ld_preload = call.pre_ld_preload
           ELSE IF Holding(call.lib_type) # {}
           THEN call.found /\ ld_preload = Append(call.pre_ld_preload, FirstHeld(call.lib_type))
           ELSE ~call.found /\ ld_preload = call.pre_ld_preload

\* C18 witness: libjemalloc.so is in three directories and the path
\* appended is the one under $CONDA_PREFIX, the first of the list.
C18_Witness ==
    /\ call.op = "add_lib_preload"
    /\ call.lib_type = jemalloc
    /\ {conda_jemalloc, venv_jemalloc, usr_lib_jemalloc} \subseteq files
    /\ Cardinality(Holding(jemalloc)) = 3
    /\ call.pre_ld_preload = <<>>
    /\ call.found
    /\ ld_preload = <<conda_jemalloc>>

\* The entries of list ld that name none of the libraries of tokens, in order.
Others(ld, tokens) == SelectSeq(ld, LAMBDA item : \A t \in tokens : ~Names(item, t))

---------------------------------------------------------------------------
(* parse_list_argument reads and writes no field of the launcher: it is    *)
(* applied to each text of a bounded set, on a launcher constructed in an  *)
(* empty environment.                                                      *)

\* Longest text over TxtAlphabet.
MaxTxtLen == 4

\* Largest number of tokens of a text made of ExampleTokens.
MaxTokens == 3

TxtAlphabet == {"0", "1", "3", ",", "-", " "}

ExampleTokens == {<<"0">>, <<"1">>, <<"7">>, <<"2", "-", "4">>, <<"3", "-", "3">>, <<"5", "-", "3">>, <<"1", "-", "2", "-", "3">>, <<"-", "3">>, <<"3", "-">>, <<" ", "1", " ", "-", " ", "1", "0", " ">>}

\* Every text of at most MaxTxtLen characters of the alphabet, and every
\* comma-separated list of at most MaxTokens of the example tokens.
Texts == SeqsUpTo(TxtAlphabet, MaxTxtLen) \cup {join(s, comma) : s \in SeqsUpTo(ExampleTokens, MaxTokens)}

\* The call txt is about to be passed to.
PendingParse(txt) == [op |-> "pending", txt |-> txt, raised |-> "", ret |-> list_set(<<>>)]

InitParse ==
    /\ logger = FALSE
    /\ os_environ = EmptyEnv
    /\ files = {}
    /\ library_paths = init_library_paths(os_environ)
    /\ ld_preload = init_ld_preload(os_environ)
    /\ environ_set = EmptyEnv
    /\ \E txt \in Texts : call = PendingParse(txt)
    /\ ncalls = 0

ParseListArgumentCall(txt, r) ==
    /\ call' = [op |-> "parse_list_argument", txt |-> txt, raised |-> r.raised, ret |-> r.ret]
    /\ ncalls' = ncalls + 1
    /\ UNCHANGED <<Ambient, ld_preload, environ_set>>

ParseListArgument ==
    /\ call.op = "pending"
    /\ ParseListArgumentCall(call.txt, parse_list_argument(call.txt))

NextParse == ParseListArgument

SpecParse == InitParse /\ [][NextParse]_vars

---------------------------------------------------------------------------
(* Vocabulary of the properties of parse_list_argument.                    *)

\* parse_list_argument has been applied to call.txt.
Parsed == call.op = "parse_list_argument"

\* The tokens of a text: its comma-separated parts, blanks around each
\* dropped; a text of blanks only has none.
TokensOf(txt) ==
    IF \A i \in 1..Len(txt) : txt[i] = " " THEN <<>>
    ELSE [i \in 1..Len(split(strip(txt), comma)) |-> strip(split(strip(txt), comma)[i])]

\* Token tok is a non-negative integer.
IsNumber(tok) == isdigit(tok)

\* Token tok is hyphenated.
Hyphenated(tok) == \E k \in 1..Len(tok) : tok[k] = "-"

\* The position of the first hyphen of a hyphenated token.
HyphenAt(tok) == CHOOSE k \in 1..Len(tok) : tok[k] = "-" /\ \A j \in 1..(k - 1) : tok[j] # "-"

\* The text before, and after, the first hyphen of a token.
LowPart(tok) == strip(SubSeq(tok, 1, HyphenAt(tok) - 1))
HighPart(tok) == strip(SubSeq(tok, HyphenAt(tok) + 1, Len(tok)))

\* Token tok is a low-high pair of two integers with low <= high.
IsPair(tok) ==
    /\ Hyphenated(tok)
    /\ isdigit(LowPart(tok))
    /\ isdigit(HighPart(tok))
    /\ int(LowPart(tok)) <= int(HighPart(tok))

\* The integers a well-formed token names or spans.
Spanned(tok) == IF IsNumber(tok) THEN {int(tok)} ELSE int(LowPart(tok))..int(HighPart(tok))

\* C11: for a well-formed text (each token a non-negative integer or a
\* low-high pair with low <= high) parse_list_argument returns the integers
\* named or spanned, each exactly once; a text that is empty or blank gives
\* the empty collection.
C11_ParsesToSet ==
    (Parsed /\ \A i \in 1..Len(TokensOf(call.txt)) : IsNumber(TokensOf(call.txt)[i]) \/ IsPair(TokensOf(call.txt)[i])) =>
        /\ call.raised = ""
        /\ DOMAIN call.ret = UNION {Spanned(TokensOf(call.txt)[i]) : i \in 1..Len(TokensOf(call.txt))}
        /\ \A v \in DOMAIN call.ret : call.ret[v] = 1

\* C11 witness: "2-4,3-3,7" gave 2, 3, 4 and 7, the 3 named twice being there once.
C11_Witness ==
    /\ Parsed
    /\ call.txt = <<"2", "-", "4", ",", "3", "-", "3", ",", "7">>
    /\ call.raised = ""
    /\ DOMAIN call.ret = {2, 3, 4, 7}
    /\ call.ret[3] = 1

\* C12: parse_list_argument raises, and so returns nothing, whenever a token
\* of the text is hyphenated and is not two integers low-high with
\* low <= high, whatever the other tokens are.
C12_MalformedRaises ==
    (Parsed /\ \E i \in 1..Len(TokensOf(call.txt)) : Hyphenated(TokensOf(call.txt)[i]) /\ ~IsPair(TokensOf(call.txt)[i])) =>
        /\ call.raised # ""
        /\ DOMAIN call.ret = {}

\* C12 witness: "0,5-3,7" failed on the order of the bounds of its second token.
C12_Witness ==
    /\ Parsed
    /\ call.txt = <<"0", ",", "5", "-", "3", ",", "7">>
    /\ call.raised = "AssertionError: Begining index of a range must be <= ending index."

---------------------------------------------------------------------------
(* quantization/_quantize.py: prepare (lines 79-109) and convert (lines    *)
(* 292-304), from the choice between the given model and a copy of it on.  *)
(* call holds the activation of the function: its arguments, the line it   *)
(* is at (pc), the local variable prepare_model / convert_model, what ran  *)
(* since the copy (steps), the warnings emitted and the exception raised.  *)
(* copy.deepcopy, copy_prepared_model, the two fuse functions and the      *)
(* later steps are outside this file: the copy and the fusing either       *)
(* succeed or raise, as the inputs copy_fails and fuse_fails say.          *)

\* The activation of function op with its arguments, at the inplace test.
Activation(op, inplace, bn_folding, copy_fails, fuse_fails, example_inputs, example_kwarg_inputs) ==
    [op |-> op, pc |-> "copy", inplace |-> inplace, bn_folding |-> bn_folding,
     copy_fails |-> copy_fails, fuse_fails |-> fuse_fails,
     example_inputs |-> example_inputs, example_kwarg_inputs |-> example_kwarg_inputs,
     local_model |-> "unbound", steps |-> <<>>, warnings |-> <<>>, raised |-> "", message |-> ""]

InitQuantize ==
    /\ logger = FALSE
    /\ os_environ = EmptyEnv
    /\ files = {}
    /\ library_paths = init_library_paths(os_environ)
    /\ ld_preload = init_ld_preload(os_environ)
    /\ environ_set = EmptyEnv
    /\ ncalls = 0
    /\ \E op \in {"prepare", "convert"}, inplace \in BOOLEAN, bn_folding \in BOOLEAN, copy_fails \in BOOLEAN,
          fuse_fails \in BOOLEAN, example_inputs \in BOOLEAN, example_kwarg_inputs \in BOOLEAN :
           call = Activation(op, inplace, bn_folding, copy_fails, fuse_fails, example_inputs, example_kwarg_inputs)

Launcher == <<logger, os_environ, files, library_paths, ld_preload, environ_set, ncalls>>

\* if inplace: ... else: try: <copy> except BaseException: <a tuple of an
\* AssertionError object and a string, built and dropped; nothing is raised>.
copy_model(inplace, copy_fails) ==
    IF inplace THEN "model"
    ELSE IF ~copy_fails THEN "copy"
    ELSE "unbound"

\* prepare, lines 79-87.
PrepareCopy ==
    /\ call.op = "prepare" /\ call.pc = "copy"
    /\ call' = [call EXCEPT !.local_model = copy_model(call.inplace, call.copy_fails), !.pc = "bn_folding"]
    /\ UNCHANGED Launcher

\* prepare, lines 88-93: reading an unbound prepare_model raises
\* UnboundLocalError inside the try, which the except clause turns into the
\* warning, as it does a failure of the fusing.
PrepareBnFolding ==
    /\ call.op = "prepare" /\ call.pc = "bn_folding"
    /\ call' = IF ~call.bn_folding
               THEN [call EXCEPT !.pc = "replace_dropout"]
               ELSE IF call.local_model = "unbound" \/ call.fuse_fails
               THEN [call EXCEPT !.pc = "replace_dropout", !.steps = Append(@, "bn_folding"),
                                 !.warnings = Append(@, "BatchNorm folding failed during the prepare process.")]
               ELSE [call EXCEPT !.pc = "replace_dropout", !.steps = Append(@, "bn_folding")]
    /\ UNCHANGED Launcher

\* prepare, line 96.
PrepareReplaceDropout ==
    /\ call.op = "prepare" /\ call.pc = "replace_dropout"
    /\ call' = IF call.local_model = "unbound"
               THEN [call EXCEPT !.pc = "raised", !.raised = "UnboundLocalError"]
               ELSE [call EXCEPT !.pc = "auto_prepare", !.steps = Append(@, "replace_dropout_with_identity")]
    /\ UNCHANGED Launcher

\* prepare, lines 97-109.
PrepareAutoPrepare ==
    /\ call.op = "prepare" /\ call.pc = "auto_prepare"
    /\ call' = IF call.example_inputs /\ call.example_kwarg_inputs
               THEN [call EXCEPT !.pc = "raised", !.raised = "AssertionError",
                                 !.message = "IPEX quantization.prepare: example_inputs and example_kwarg_inputs cannot be set at same time."]
               ELSE [call EXCEPT !.pc = "returned", !.steps = Append(@, "auto_prepare")]
    /\ UNCHANGED Launcher

\* convert, lines 292-300.
ConvertCopy ==
    /\ call.op = "convert" /\ call.pc = "copy"
    /\ call' = [call EXCEPT !.local_model = copy_model(call.inplace, call.copy_fails), !.pc = "q_config"]
    /\ UNCHANGED Launcher

\* convert, line 304 on: the first read of convert_model.
ConvertQConfig ==
    /\ call.op = "convert" /\ call.pc = "q_config"
    /\ call' = IF call.local_model = "unbound"
               THEN [call EXCEPT !.pc = "raised", !.raised = "UnboundLocalError"]
               ELSE [call EXCEPT !.pc = "returned", !.steps = Append(@, "q_config")]
    /\ UNCHANGED Launcher

NextQuantize ==
    \/ PrepareCopy
    \/ PrepareBnFolding
    \/ PrepareReplaceDropout
    \/ PrepareAutoPrepare
    \/ ConvertCopy
    \/ ConvertQConfig

SpecQuantize == InitQuantize /\ [][NextQuantize]_vars

\* C14: when inplace is False and copying the model fails, prepare and
\* convert raise an AssertionError whose message tells the caller to set
\* inplace to True, before any later step of the operation runs.
C14_CopyFailureAsserts ==
    (call.op \in {"prepare", "convert"} /\ ~call.inplace /\ call.copy_fails /\ call.pc # "copy") =>
        /\ call.pc = "raised"
        /\ call.raised = "AssertionError"
        /\ call.message \in {"The model's copy is failed, please try set inplace to True to do the prepare",
                             "The model's copy is failed, please try set inplace to True to do the convert"}
        /\ call.steps = <<>>
        /\ call.warnings = <<>>

===========================================================================
